---- MODULE Spec2Model ----
(***************************************************************************)
(* Model of the range-download client: download_file (client/src/main.rs)  *)
(* driving HttpClient::fetch_range / fetch_range_via_stream and            *)
(* parse_status_line (client/src/http_client.rs).                          *)
(*                                                                         *)
(* Text is modelled as the sequence of its lexemes: the single whitespace  *)
(* characters (" ", "<CR>", "<LF>", "<TAB>"), the single digits and signs, *)
(* the protocol prefix "HTTP/", the punctuation next to a word the client *)
(* searches for, and words (runs of other characters).  trim, splitn,      *)
(* starts_with, parse and contains work on these sequences the way the     *)
(* Rust functions work on characters.                                      *)
(***************************************************************************)
EXTENDS Integers, Sequences, FiniteSets, TLC

(* ------------------------------ bounds --------------------------------- *)
\* Longest accumulated payload (bytes) the network is allowed to deliver.
MaxData == 2
\* Most calls of fetch_range in one run of download_file.
MaxAttempts == 3
\* Most non-blank header lines the server sends in one response.
MaxHeaders == 1

\* Byte values the server sends.
Bytes == {7, 9}

(* --------------------------- text helpers ------------------------------ *)
Min(S) == CHOOSE x \in S : \A y \in S : x <= y
Max(S) == CHOOSE x \in S : \A y \in S : x >= y

\* The words ws joined by single spaces, as a lexeme sequence.
RECURSIVE Words(_)
Words(ws) ==
    IF ws = <<>> THEN <<>>
    ELSE IF Len(ws) = 1 THEN <<ws[1]>>
    ELSE <<ws[1], " ">> \o Words(Tail(ws))

\* char::is_whitespace, over the whitespace lexemes of the model.
WhiteSpace == {" ", "<CR>", "<LF>", "<TAB>"}

\* str::trim
trim(line) ==
    LET keep == {i \in 1..Len(line) : line[i] \notin WhiteSpace}
    IN  IF keep = {} THEN <<>> ELSE SubSeq(line, Min(keep), Max(keep))

\* str::splitn(n, ' '): at most n fields, split at the first n-1 spaces.
RECURSIVE splitn(_, _)
splitn(n, s) ==
    LET sp == {i \in 1..Len(s) : s[i] = " "}
    IN  IF n <= 1 \/ sp = {} THEN <<s>>
        ELSE <<SubSeq(s, 1, Min(sp) - 1)>>
                 \o splitn(n - 1, SubSeq(s, Min(sp) + 1, Len(s)))

\* str::starts_with
starts_with(s, p) == Len(s) >= Len(p) /\ SubSeq(s, 1, Len(p)) = p

\* str::contains
contains(s, needle) ==
    \E i \in 0..(Len(s) - Len(needle)) : SubSeq(s, i + 1, i + Len(needle)) = needle

\* Decimal digits.
DigitChars == <<"0", "1", "2", "3", "4", "5", "6", "7", "8", "9">>
IsDigit(c) == \E d \in 1..10 : DigitChars[d] = c
DigitValue(c) == (CHOOSE d \in 1..10 : DigitChars[d] = c) - 1

\* Display of an unsigned integer ("{}" in format!).
RECURSIVE Decimal(_)
Decimal(n) ==
    IF n < 10 THEN <<DigitChars[n + 1]>>
    ELSE Decimal(n \div 10) \o <<DigitChars[(n % 10) + 1]>>

\* Largest u16.
U16Max == 65535

\* str::parse::<u16>: optional leading "+", then one or more digits, folded
\* left to right; the first bad digit or the first overflow ends the parse.
RECURSIVE from_digits(_, _)
from_digits(ds, acc) ==
    IF ds = <<>> THEN [ok |-> TRUE, val |-> acc]
    ELSE IF ~IsDigit(Head(ds))
         THEN [ok |-> FALSE, err |-> Words(<<"invalid", "digit", "found", "in", "string">>)]
    ELSE LET v == acc * 10 + DigitValue(Head(ds))
         IN  IF v > U16Max
             THEN [ok |-> FALSE,
                   err |-> Words(<<"number", "too", "large", "to", "fit", "in", "target", "type">>)]
             ELSE from_digits(Tail(ds), v)

parse_u16(s) ==
    IF s = <<>>
    THEN [ok |-> FALSE,
          err |-> Words(<<"cannot", "parse", "integer", "from", "empty", "string">>)]
    ELSE LET ds == IF Head(s) = "+" THEN Tail(s) ELSE s
         IN  IF ds = <<>>
             THEN [ok |-> FALSE,
                   err |-> Words(<<"invalid", "digit", "found", "in", "string">>)]
             ELSE from_digits(ds, 0)

(* ------------------------------ errors --------------------------------- *)
\* A Box<dyn Error>: io is the ErrorKind when the box holds an io::Error and
\* "None" when it holds a message; msg is its Display text; cause (not read
\* by the program) records which condition produced it.
IoError(kind, text, cause) == [io |-> kind, msg |-> text, cause |-> cause]
StringError(text, cause) == [io |-> "None", msg |-> text, cause |-> cause]

\* Display of an io::Error built from a bare ErrorKind.
IoDescription(kind) ==
    CASE kind = "ConnectionRefused" -> Words(<<"connection", "refused">>)
      [] kind = "ConnectionReset"   -> Words(<<"connection", "reset">>)
      [] kind = "ConnectionAborted" -> Words(<<"connection", "aborted">>)
      [] kind = "NotConnected"      -> Words(<<"not", "connected">>)
      [] kind = "BrokenPipe"        -> Words(<<"broken", "pipe">>)
      [] kind = "TimedOut"          -> Words(<<"timed", "out">>)
      [] kind = "WouldBlock"        -> Words(<<"operation", "would", "block">>)
      [] kind = "UnexpectedEof"     -> Words(<<"unexpected", "end", "of", "file">>)
      [] kind = "Interrupted"       -> Words(<<"operation", "interrupted">>)
      [] kind = "InvalidData"
            -> Words(<<"stream", "did", "not", "contain", "valid", "UTF-8">>)
      [] kind = "InvalidInput"
            -> Words(<<"cannot", "set", "a", "0", "duration", "timeout">>)
      [] kind = "WriteZero"
            -> Words(<<"failed", "to", "write", "whole", "buffer">>)
      [] kind = "HostUnreachable"   -> Words(<<"host", "unreachable">>)
      [] kind = "Uncategorized"
            -> Words(<<"failed", "to", "lookup", "address", "information">>)
      [] OTHER                      -> Words(<<"other", "error">>)

\* The three message fragments download_file looks for in an error's text.
ResolveNeedle == Words(<<"Failed", "to", "resolve", "address">>)
ClosedStatusNeedle == Words(<<"Connection", "closed", "before", "status", "line">>)
ClosedHeaderNeedle == Words(<<"Connection", "closed", "during", "header", "reading">>)

\* format!("{}:{}", host, port) with the default configuration.
Target == <<"127.0.0.1", ":", "8080">>

\* ok_or_else(|| format!("Failed to resolve address: {}", target))
ResolveEmptyError ==
    StringError(Words(<<"Failed", "to", "resolve", "address">>) \o <<":", " ">> \o Target,
                "resolve_empty")

\* "Connection closed before status line received"
ClosedBeforeStatusError ==
    StringError(Words(<<"Connection", "closed", "before", "status", "line", "received">>),
                "closed_before_status")

\* Mutant: the header loop reuses the status-line message.
Mut_ClosedDuringHeaders_status_message ==
    StringError(Words(<<"Connection", "closed", "before", "status", "line", "received">>),
                "closed_during_headers")

\* "Connection closed during header reading"
ClosedDuringHeadersError ==
    StringError(Words(<<"Connection", "closed", "during", "header", "reading">>),
                "closed_during_headers")

(* -------------------------- parse_status_line -------------------------- *)
HttpPrefix == <<"HTTP/">>

Quoted(s) == <<"'">> \o s \o <<"'">>

parse_status_line(line) ==
    LET trimmed_line == trim(line)
        parts == splitn(3, trimmed_line)
    IN  IF trimmed_line = <<>>
        THEN [ok |-> FALSE, code |-> 0,
              err |-> StringError(
                  Words(<<"Status", "line", "is", "empty", "after", "trimming">>),
                  "empty_status")]
        ELSE IF Len(parts) < 2
        THEN [ok |-> FALSE, code |-> 0,
              err |-> StringError(
                  Words(<<"Malformed", "status", "line", "(too", "few", "parts):">>)
                      \o <<" ">> \o Quoted(trimmed_line),
                  "malformed_status")]
        ELSE IF ~starts_with(parts[1], HttpPrefix)
        THEN [ok |-> FALSE, code |-> 0,
              err |-> StringError(
                  Words(<<"Malformed", "status", "line", "(invalid", "or", "missing",
                          "HTTP", "version", "part">>)
                      \o <<" ">> \o Quoted(parts[1]) \o <<"):", " ">>
                      \o Quoted(trimmed_line),
                  "malformed_status")]
        ELSE LET p == parse_u16(parts[2])
             IN  IF p.ok
                 THEN [ok |-> TRUE, code |-> p.val,
                       err |-> StringError(<<>>, "none")]
                 ELSE [ok |-> FALSE, code |-> 0,
                       err |-> StringError(
                           Words(<<"Invalid", "status", "code">>) \o <<" ">>
                               \o Quoted(parts[2]) \o <<" ", "in", " ", "line", " ">>
                               \o Quoted(trimmed_line) \o <<":", " ">> \o p.err,
                           "invalid_status_code")]

(* ------------------------- request on the wire ------------------------- *)
CRLF == <<"<CR>", "<LF>">>

\* The request text fetch_range_via_stream writes.
FormatRequest(target_host, start) ==
    <<"GET", " ", "/", " ", "HTTP/", "1.1">> \o CRLF
        \o <<"Host:", " ">> \o target_host \o CRLF
        \o <<"Range:", " ", "bytes=">> \o Decimal(start) \o <<"-">> \o CRLF
        \o <<"Connection:", " ", "close">> \o CRLF
        \o <<"User-Agent:", " ", "RustStdNetClient/1.0">> \o CRLF
        \o CRLF

(* --------------------- download_file: the decisions -------------------- *)
\* The ErrorKinds the first arm of the is_retryable match lists.
RetryableKinds ==
    {"ConnectionRefused", "TimedOut", "ConnectionReset", "ConnectionAborted",
     "NotConnected", "BrokenPipe"}

\* let is_retryable = match io_error_kind { ... }
is_retryable(e) ==
    IF e.io \in RetryableKinds THEN TRUE
    ELSE \/ contains(e.msg, ResolveNeedle)
         \/ contains(e.msg, ClosedStatusNeedle)
         \/ contains(e.msg, ClosedHeaderNeedle)

\* Mutant: every status below 400 counts as a success.
Mut_is_success_below_400(status) == status >= 200 /\ status < 400

\* status == 200 || status == 206
is_success_status(status) == status = 200 \/ status = 206

\* Mutant: the chunk replaces the payload instead of extending it.
Mut_extend_replaces(v, chunk) == chunk

\* data.extend_from_slice(&received_chunk)
extend_from_slice(v, chunk) == v \o chunk

\* Mutant: the is_empty test is missing.
Mut_is_complete_any_body(status, received_chunk, start) ==
    status = 206 /\ start > 0

\* Mutant: the start_byte > 0 test is missing.
Mut_is_complete_any_offset(status, received_chunk, start) ==
    status = 206 /\ received_chunk = <<>>

\* status == 206 && received_chunk.is_empty() && start_byte > 0
is_complete(status, received_chunk, start) ==
    status = 206 /\ received_chunk = <<>> /\ start > 0

\* format!("Server returned non-successful status: {}", status)
StatusErrorMessage(status) ==
    Words(<<"Server", "returned", "non-successful", "status:">>) \o <<" ">>
        \o Decimal(status)

\* format!("Fatal download error: {}", e)
FatalErrorMessage(e) ==
    Words(<<"Fatal", "download", "error:">>) \o <<" ">> \o e.msg

(* --------------------- fetch_range: the environment -------------------- *)
\* ErrorKinds of a failed to_socket_addrs lookup.
LookupErrKinds == {"Uncategorized"}
\* ErrorKinds of a failed TcpStream::connect_timeout.
ConnectErrKinds ==
    {"ConnectionRefused", "TimedOut", "ConnectionReset", "ConnectionAborted",
     "HostUnreachable", "InvalidInput"}
\* ErrorKinds of a failed set_read_timeout / set_write_timeout.
TimeoutErrKinds == {"InvalidInput"}
\* ErrorKinds a read or write on the stream can fail with.
StreamErrKinds ==
    {"TimedOut", "WouldBlock", "ConnectionReset", "ConnectionAborted",
     "NotConnected", "BrokenPipe", "UnexpectedEof", "Other"}
\* write_all adds WriteZero; read_line adds InvalidData; read adds Interrupted
\* (write_all and read_line retry Interrupted themselves).
WriteErrKinds == StreamErrKinds \cup {"WriteZero"}
ReadLineErrKinds == StreamErrKinds \cup {"InvalidData"}
BodyErrKinds == StreamErrKinds \cup {"Interrupted"}

\* First lines a server (or a closing connection) can send.
StatusLines ==
    { <<"HTTP/", "1.1", " ", "2", "0", "0", " ", "OK", "<CR>", "<LF>">>,
      <<"HTTP/", "1.1", " ", "2", "0", "6", " ", "Partial", " ", "Content", "<CR>", "<LF>">>,
      <<"HTTP/", "1.0", " ", "2", "0", "6">>,
      <<"HTTP/", "2", " ", "4", "0", "4", " ", "Not", " ", "Found", "<CR>", "<LF>">>,
      <<" ", "HTTP/", "1.1", " ", "3", "0", "2", " ", "Found", " ", "Redirect", " ",
        "<CR>", "<LF>">>,
      <<"HTTP/", "1.1", " ", "+", "2", "0", "6", " ", "OK", "<CR>", "<LF>">>,
      <<"HTTP/", "1.1", " ", "OK">>,
      <<"HTTP/", "1.1", " ", "2", "0", "X", " ", "OK">>,
      <<"HTTP/", "1.1", " ", "6", "5", "5", "3", "6", " ", "OK", "<CR>", "<LF>">>,
      <<"HTTP/", "1.1", " ", " ", "2", "0", "0", " ", "OK", "<CR>", "<LF>">>,
      <<" ", "2", "0", "0", " ", "OK">>,
      <<"HTTP/", "1.1">>,
      <<"<CR>", "<LF>">>,
      <<"Connection", " ", "closed", " ", "before", " ", "status", " ", "line",
        "<CR>", "<LF>">>,
      <<"HTTP/", "1.1", " ", "2", "0", "X", " ", "Failed", " ", "to", " ", "resolve",
        " ", "address", "<CR>", "<LF>">>,
      <<"HTTP/", "1.1", " ", "Connection", " ", "closed", " ", "during", " ", "header",
        " ", "reading", "<CR>", "<LF>">> }

\* Header lines other than the blank line that ends the block.
HeaderLines ==
    { <<"Content-Length:", " ", "3", "<CR>", "<LF>">>,
      <<"Content-Range:", " ", "bytes", " ", "0", "-", "2", "/", "3", "<CR>", "<LF>">>,
      <<"<LF>">>,
      <<"Content-Type:", " ", "text/p">>,
      <<"X-Name:", " ", "<FF>", "<CR>", "<LF>">> }

\* std::str::from_utf8 succeeds: the line has no byte that is not UTF-8
\* ("<FF>" stands for the byte 0xFF).
is_utf8(line) == \A i \in 1..Len(line) : line[i] # "<FF>"

\* let mut chunk_buffer = [0; 8 * 1024]
ChunkBufferLen == 8 * 1024

\* Non-empty byte sequences of length at most n.
ChunksUpTo(n) == UNION {[1..k -> Bytes] : k \in 1..n}

(* --------------------------- configuration ---------------------------- *)
\* Most command-line arguments after the program name.
MaxArgs == 2

\* impl Default for Config
DefaultConfig ==
    [host |-> <<"127.0.0.1">>, port |-> 8080, expected_hash |-> <<>>,
     connect_timeout |-> 5, read_write_timeout |-> 15]

\* str::strip_prefix, for an argument whose first lexeme is its "--name=" part.
strip_prefix(arg, prefix) ==
    IF arg # <<>> /\ Head(arg) = prefix
    THEN [some |-> TRUE, val |-> Tail(arg)]
    ELSE [some |-> FALSE, val |-> <<>>]

\* str::parse::<u64>, for values far below the u64 range: optional "+", then
\* one or more digits.
RECURSIVE u64_digits(_, _)
u64_digits(ds, acc) ==
    IF ds = <<>> THEN [ok |-> TRUE, val |-> acc]
    ELSE IF ~IsDigit(Head(ds)) THEN [ok |-> FALSE, val |-> 0]
    ELSE u64_digits(Tail(ds), acc * 10 + DigitValue(Head(ds)))

parse_u64(s) ==
    LET ds == IF s # <<>> /\ Head(s) = "+" THEN Tail(s) ELSE s
    IN  IF ds = <<>> THEN [ok |-> FALSE, val |-> 0] ELSE u64_digits(ds, 0)

\* The for loop of parse_args over the arguments still to read.
RECURSIVE parse_args_loop(_, _)
parse_args_loop(args, config) ==
    IF args = <<>> THEN [ok |-> TRUE, config |-> config]
    ELSE LET arg == Head(args)
             rest == Tail(args)
         IN  IF strip_prefix(arg, "--host=").some
             THEN parse_args_loop(rest,
                      [config EXCEPT !.host = strip_prefix(arg, "--host=").val])
             ELSE IF strip_prefix(arg, "--port=").some
             THEN LET p == parse_u16(strip_prefix(arg, "--port=").val)
                  IN  IF p.ok
                      THEN parse_args_loop(rest, [config EXCEPT !.port = p.val])
                      ELSE [ok |-> FALSE, config |-> config]
             ELSE IF strip_prefix(arg, "--hash=").some
             THEN parse_args_loop(rest,
                      [config EXCEPT !.expected_hash = strip_prefix(arg, "--hash=").val])
             ELSE IF strip_prefix(arg, "--connect-timeout=").some
             THEN LET t == parse_u64(strip_prefix(arg, "--connect-timeout=").val)
                  IN  IF t.ok
                      THEN parse_args_loop(rest, [config EXCEPT !.connect_timeout = t.val])
                      ELSE [ok |-> FALSE, config |-> config]
             ELSE IF strip_prefix(arg, "--read-write-timeout=").some
             THEN LET t == parse_u64(strip_prefix(arg, "--read-write-timeout=").val)
                  IN  IF t.ok
                      THEN parse_args_loop(rest,
                               [config EXCEPT !.read_write_timeout = t.val])
                      ELSE [ok |-> FALSE, config |-> config]
             ELSE parse_args_loop(rest, config)

\* Mutant: the is_empty test on the expected hash is missing.
Mut_parse_args_hash_optional(args) == parse_args_loop(args, DefaultConfig)

\* parse_args, given env::args()
parse_args(args) ==
    LET r == parse_args_loop(args, DefaultConfig)
    IN  IF r.ok /\ r.config.expected_hash = <<>>
        THEN [ok |-> FALSE, config |-> r.config]
        ELSE r

\* Arguments a user passes: a digest in lowercase and in uppercase hex, an
\* empty digest, the default port and timeout, a port that is no number, and
\* an option the program does not know.
ArgChoices ==
    { <<"--hash=", "e", "d", "8", "f">>,
      <<"--hash=", "E", "D", "8", "F">>,
      <<"--hash=">>,
      <<"--port=", "8", "0", "8", "0">>,
      <<"--port=", "x">>,
      <<"--connect-timeout=", "5">>,
      <<"--verbose">> }

\* env::args(): the program name, then at most MaxArgs arguments.
ArgVectors ==
    {<<<<"client">>>> \o tail :
        tail \in UNION {[1..k -> ArgChoices] : k \in 0..MaxArgs}}

(* ------------------------------ integrity ------------------------------ *)
\* Stand-in for the external SHA-256: a two-byte digest folded over every
\* byte of the payload.
RECURSIVE digest_fold(_, _)
digest_fold(bytes, h) ==
    IF bytes = <<>> THEN h
    ELSE digest_fold(Tail(bytes), (h * 31 + Head(bytes) + 1) % 65536)

Sha256(bytes) ==
    LET h == digest_fold(bytes, 43981) IN <<h \div 256, h % 256>>

\* const HEX_DIGITS: &[u8] = b"0123456789abcdef"
HEX_DIGITS ==
    <<"0", "1", "2", "3", "4", "5", "6", "7", "8", "9", "a", "b", "c", "d", "e", "f">>

\* hex::encode
RECURSIVE encode(_)
encode(bytes) ==
    IF bytes = <<>> THEN <<>>
    ELSE <<HEX_DIGITS[(Head(bytes) \div 16) + 1], HEX_DIGITS[(Head(bytes) % 16) + 1]>>
             \o encode(Tail(bytes))

\* ASCII lowercase of a hex text.
to_lowercase(text) ==
    [i \in 1..Len(text) |->
        CASE text[i] = "A" -> "a" [] text[i] = "B" -> "b" [] text[i] = "C" -> "c"
          [] text[i] = "D" -> "d" [] text[i] = "E" -> "e" [] text[i] = "F" -> "f"
          [] OTHER -> text[i]]

\* Mutant: the comparison ignores case.
Mut_hashes_match_ignoring_case(hash_text, expected_hash) ==
    to_lowercase(hash_text) = to_lowercase(expected_hash)

\* hash_hex == config.expected_hash
hashes_match(hash_text, expected_hash) == hash_text = expected_hash

(* ------------------------------- state --------------------------------- *)
VARIABLES
    pc,           \* where download_file / fetch_range stands
    data,         \* download_file: the accumulated payload
    start_byte,   \* download_file: offset of the current request
    request,      \* the request text written to the current connection
    status_code,  \* fetch_range_via_stream: parsed status code
    body_bytes,   \* fetch_range_via_stream: body read in this attempt
    headers_read, \* header lines read so far in this attempt
    fetched,      \* what fetch_range returned to download_file
    result,       \* what download_file returned
    attempts,     \* history: offset, outcome and response of every call of fetch_range
    sleeps,       \* history: number of backoff sleeps
    last_io,      \* history: stage and result of the last network operation
    recv,         \* history: body bytes the stream delivered in this attempt
    status_line,  \* the line parse_status_line is given
    config,       \* main: the configuration parse_args returned
    hash_hex,     \* main: hex text of the digest of the downloaded payload
    process,      \* main: whether the process has ended, its status and report
    args_hash     \* history: the digest text the command line supplied

vars == <<pc, data, start_byte, request, status_code, body_bytes, headers_read,
          fetched, result, attempts, sleeps, last_io, recv, status_line, config,
          hash_hex, process, args_hash>>

\* The variables of main, which download_file does not change.
MainVars == <<config, hash_hex, process, args_hash>>

ProcessRunning == [exited |-> FALSE, code |-> 0, report |-> "none"]
Exit(code, report) == [exited |-> TRUE, code |-> code, report |-> report]

\* A configuration parse_args accepts: the default one with a digest given.
RunConfig == [DefaultConfig EXCEPT !.expected_hash = <<"e", "d", "8", "f">>]

NoError == StringError(<<>>, "none")
NoFetch == [tag |-> "none", status |-> 0, chunk |-> <<>>, err |-> NoError]
FetchOk(status, chunk) == [tag |-> "ok", status |-> status, chunk |-> chunk, err |-> NoError]
FetchErr(e) == [tag |-> "err", status |-> 0, chunk |-> <<>>, err |-> e]

Running == [kind |-> "running", data |-> <<>>, msg |-> <<>>]
ReturnOk(v) == [kind |-> "Ok", data |-> v, msg |-> <<>>]
ReturnErr(m) == [kind |-> "Err", data |-> <<>>, msg |-> m]

Io(stage, ev) == [stage |-> stage, ev |-> ev]

Init ==
    /\ pc = "top"
    /\ data = <<>>
    /\ start_byte = 0
    /\ request = <<>>
    /\ status_code = 0
    /\ body_bytes = <<>>
    /\ headers_read = 0
    /\ fetched = NoFetch
    /\ result = Running
    /\ attempts = <<>>
    /\ sleeps = 0
    /\ last_io = Io("none", "none")
    /\ recv = <<>>
    /\ status_line = <<>>
    /\ config = RunConfig
    /\ hash_hex = <<>>
    /\ process = ProcessRunning
    /\ args_hash = RunConfig.expected_hash

\* The history entry of the current attempt, with its outcome set.
Outcome(o) == [attempts EXCEPT ![Len(attempts)].outcome = o]

\* The same, with the status and body fetch_range returned.
Answered(o, status, body) ==
    [attempts EXCEPT ![Len(attempts)] =
        [offset |-> @.offset, outcome |-> o, status |-> status, body |-> body]]

\* fetch_range returns r to download_file.
Return(r, stage, ev) ==
    /\ fetched' = r
    /\ pc' = "match"
    /\ last_io' = Io(stage, ev)

(* ------------------------ download_file: loop top ---------------------- *)
\* let start_byte = data.len();  client.fetch_range(start_byte)
LoopTop ==
    /\ pc = "top"
    /\ Len(attempts) < MaxAttempts
    /\ start_byte' = Len(data)
    /\ attempts' = Append(attempts, [offset |-> Len(data), outcome |-> "pending",
                                     status |-> 0, body |-> <<>>])
    /\ pc' = "resolve"
    /\ request' = <<>>
    /\ status_code' = 0
    /\ body_bytes' = <<>>
    /\ headers_read' = 0
    /\ fetched' = NoFetch
    /\ last_io' = Io("call", "none")
    /\ recv' = <<>>
    /\ UNCHANGED <<data, result, sleeps, status_line>>
    /\ UNCHANGED MainVars

(* ----------------------------- fetch_range ----------------------------- *)
FetchFrame == <<data, start_byte, result, attempts, sleeps, status_line, config,
                hash_hex, process, args_hash>>

\* target.to_socket_addrs()?.next().ok_or_else(..)?
Resolve ==
    /\ pc = "resolve"
    /\ \/ \E kind \in LookupErrKinds :
              Return(FetchErr(IoError(kind, IoDescription(kind), "resolve_lookup")),
                     "resolve", kind)
       \/ Return(FetchErr(ResolveEmptyError), "resolve", "empty")
       \/ /\ pc' = "connect"
          /\ last_io' = Io("resolve", "ok")
          /\ UNCHANGED fetched
    /\ UNCHANGED <<request, status_code, body_bytes, headers_read, recv>>
    /\ UNCHANGED FetchFrame

\* TcpStream::connect_timeout(&socket_addr, self.connect_timeout)?
Connect ==
    /\ pc = "connect"
    /\ \/ \E kind \in ConnectErrKinds :
              Return(FetchErr(IoError(kind, IoDescription(kind), "io")), "connect", kind)
       \/ /\ pc' = "timeouts"
          /\ last_io' = Io("connect", "ok")
          /\ UNCHANGED fetched
    /\ UNCHANGED <<request, status_code, body_bytes, headers_read, recv>>
    /\ UNCHANGED FetchFrame

\* stream.set_read_timeout(..)?; stream.set_write_timeout(..)?
SetTimeouts ==
    /\ pc = "timeouts"
    /\ \/ \E kind \in TimeoutErrKinds :
              Return(FetchErr(IoError(kind, IoDescription(kind), "io")), "timeouts", kind)
       \/ /\ pc' = "write"
          /\ last_io' = Io("timeouts", "ok")
          /\ UNCHANGED fetched
    /\ UNCHANGED <<request, status_code, body_bytes, headers_read, recv>>
    /\ UNCHANGED FetchFrame

(* ----------------------- fetch_range_via_stream ------------------------ *)
\* stream.write_all(request.as_bytes())?; stream.flush()?
WriteRequest ==
    /\ pc = "write"
    /\ \/ /\ \E kind \in WriteErrKinds :
                 Return(FetchErr(IoError(kind, IoDescription(kind), "io")), "write", kind)
          /\ UNCHANGED request
       \/ /\ request' = FormatRequest(Target, start_byte)
          /\ pc' = "status"
          /\ last_io' = Io("write", "ok")
          /\ UNCHANGED fetched
    /\ UNCHANGED <<status_code, body_bytes, headers_read, recv>>
    /\ UNCHANGED FetchFrame

\* reader.read_line(&mut status_line)?, then parse_status_line(&status_line)?
ReadStatusLine ==
    /\ pc = "status"
    /\ \/ /\ \E kind \in ReadLineErrKinds :
                 Return(FetchErr(IoError(kind, IoDescription(kind), "io")), "status", kind)
          /\ UNCHANGED status_code
       \/ /\ Return(FetchErr(ClosedBeforeStatusError), "status", "eof")
          /\ UNCHANGED status_code
       \/ \E line \in StatusLines :
              LET parsed == parse_status_line(line)
              IN  IF parsed.ok
                  THEN /\ status_code' = parsed.code
                       /\ pc' = "headers"
                       /\ last_io' = Io("status", "line")
                       /\ UNCHANGED fetched
                  ELSE /\ Return(FetchErr(parsed.err), "status", "line")
                       /\ UNCHANGED status_code
    /\ UNCHANGED <<request, body_bytes, headers_read, recv>>
    /\ UNCHANGED FetchFrame

\* One turn of the header loop.
ReadHeaderLine ==
    /\ pc = "headers"
    /\ \/ /\ \E kind \in StreamErrKinds :
                 Return(FetchErr(IoError(kind, IoDescription(kind), "io")), "headers", kind)
          /\ UNCHANGED headers_read
       \/ /\ Return(FetchErr(ClosedDuringHeadersError), "headers", "eof")
          /\ UNCHANGED headers_read
       \/ \E header_line \in HeaderLines \cup {CRLF} :
              /\ header_line # CRLF => headers_read < MaxHeaders
              /\ IF ~is_utf8(header_line)
                 THEN /\ Return(FetchErr(IoError("InvalidData",
                                                IoDescription("InvalidData"),
                                                "invalid_utf8")),
                                "headers", "line")
                      /\ UNCHANGED headers_read
                 ELSE /\ IF header_line = CRLF
                         THEN pc' = "body" /\ UNCHANGED headers_read
                         ELSE pc' = "headers" /\ headers_read' = headers_read + 1
                      /\ last_io' = Io("headers", "line")
                      /\ UNCHANGED fetched
    /\ UNCHANGED <<request, status_code, body_bytes, recv>>
    /\ UNCHANGED FetchFrame

\* Mutant: a connection reset in the middle of the body ends the body like a
\* timeout.
Mut_on_body_read_error_reset_breaks(kind) ==
    CASE kind = "Interrupted" -> "continue"
      [] kind = "WouldBlock" \/ kind = "TimedOut" -> "break"
      [] kind = "UnexpectedEof" \/ kind = "ConnectionReset" -> "break"
      [] OTHER -> "return"

\* Mutant: the UnexpectedEof arm is missing, so the error is returned.
Mut_on_body_read_error_eof_returned(kind) ==
    CASE kind = "Interrupted" -> "continue"
      [] kind = "WouldBlock" \/ kind = "TimedOut" -> "break"
      [] OTHER -> "return"

\* What the body loop does with Err(e) of reader.read: "continue", "break"
\* (keep what was read and return Ok) or "return" (return the error).
on_body_read_error(kind) ==
    CASE kind = "Interrupted" -> "continue"
      [] kind = "WouldBlock" \/ kind = "TimedOut" -> "break"
      [] kind = "UnexpectedEof" -> "break"
      [] OTHER -> "return"

\* body_bytes.extend_from_slice(&chunk_buffer[..n])
body_extend(body, chunk) == body \o chunk

\* One turn of the body loop: match reader.read(&mut chunk_buffer).
ReadBody ==
    /\ pc = "body"
    /\ \/ /\ Return(FetchOk(status_code, body_bytes), "body", "eof")
          /\ UNCHANGED <<body_bytes, recv>>
       \/ \E chunk \in ChunksUpTo(MaxData - Len(data) - Len(recv)) :
              /\ Len(chunk) <= ChunkBufferLen
              /\ body_bytes' = body_extend(body_bytes, chunk)
              /\ recv' = recv \o chunk
              /\ pc' = "body"
              /\ last_io' = Io("body", "data")
              /\ UNCHANGED fetched
       \/ \E kind \in BodyErrKinds :
              /\ CASE on_body_read_error(kind) = "continue" ->
                          /\ pc' = "body"
                          /\ last_io' = Io("body", kind)
                          /\ UNCHANGED fetched
                   [] on_body_read_error(kind) = "break" ->
                          Return(FetchOk(status_code, body_bytes), "body", kind)
                   [] OTHER ->
                          Return(FetchErr(IoError(kind, IoDescription(kind), "io")),
                                 "body", kind)
              /\ UNCHANGED <<body_bytes, recv>>
    /\ UNCHANGED <<request, status_code, headers_read>>
    /\ UNCHANGED FetchFrame

(* ---------------------- download_file: the match ----------------------- *)
MatchFrame == <<start_byte, request, status_code, body_bytes, headers_read,
                fetched, sleeps, last_io, recv, status_line, config, hash_hex, process,
                args_hash>>

\* Ok((status, received_chunk)) => { .. }
MatchOk ==
    /\ pc = "match"
    /\ fetched.tag = "ok"
    /\ IF is_success_status(fetched.status)
       THEN /\ data' = extend_from_slice(data, fetched.chunk)
            /\ IF is_complete(fetched.status, fetched.chunk, start_byte)
               THEN /\ pc' = "done"
                    /\ result' = ReturnOk(data')
                    /\ attempts' = Answered("complete", fetched.status, fetched.chunk)
               ELSE /\ pc' = "top"
                    /\ result' = result
                    /\ attempts' = Answered("appended", fetched.status, fetched.chunk)
       ELSE /\ data' = data
            /\ pc' = "done"
            /\ result' = ReturnErr(StatusErrorMessage(fetched.status))
            /\ attempts' = Answered("bad_status", fetched.status, fetched.chunk)
    /\ UNCHANGED MatchFrame

\* Mutant: the bytes read in the failed attempt are kept on a retry.
Mut_MatchErr_keeps_partial_body ==
    /\ pc = "match"
    /\ fetched.tag = "err"
    /\ IF is_retryable(fetched.err)
       THEN /\ pc' = "sleep"
            /\ result' = result
            /\ attempts' = Outcome("retry")
            /\ data' = data \o body_bytes
       ELSE /\ pc' = "done"
            /\ result' = ReturnErr(FatalErrorMessage(fetched.err))
            /\ attempts' = Outcome("fatal")
            /\ data' = data
    /\ UNCHANGED MatchFrame

\* Mutant: a retryable error is fatal once a retry has already been made.
Mut_MatchErr_retry_ceiling ==
    /\ pc = "match"
    /\ fetched.tag = "err"
    /\ IF is_retryable(fetched.err) /\ sleeps < 1
       THEN /\ pc' = "sleep"
            /\ result' = result
            /\ attempts' = Outcome("retry")
       ELSE /\ pc' = "done"
            /\ result' = ReturnErr(FatalErrorMessage(fetched.err))
            /\ attempts' = Outcome("fatal")
    /\ data' = data
    /\ UNCHANGED MatchFrame

\* Err(e) => { .. }
MatchErr ==
    /\ pc = "match"
    /\ fetched.tag = "err"
    /\ IF is_retryable(fetched.err)
       THEN /\ pc' = "sleep"
            /\ result' = result
            /\ attempts' = Outcome("retry")
       ELSE /\ pc' = "done"
            /\ result' = ReturnErr(FatalErrorMessage(fetched.err))
            /\ attempts' = Outcome("fatal")
    /\ data' = data
    /\ UNCHANGED MatchFrame

\* std::thread::sleep(Duration::from_millis(100)); continue;
Sleep ==
    /\ pc = "sleep"
    /\ pc' = "top"
    /\ sleeps' = sleeps + 1
    /\ UNCHANGED <<data, start_byte, request, status_code, body_bytes, headers_read,
                   fetched, result, attempts, last_io, recv, status_line>>
    /\ UNCHANGED MainVars

Next ==
    \/ LoopTop
    \/ Resolve
    \/ Connect
    \/ SetTimeouts
    \/ WriteRequest
    \/ ReadStatusLine
    \/ ReadHeaderLine
    \/ ReadBody
    \/ MatchOk
    \/ MatchErr
    \/ Sleep

Spec == Init /\ [][Next]_vars

(* -------------------------------- main --------------------------------- *)
\* The variables of download_file and fetch_range, which main's own steps
\* leave alone.
DownloadVars == <<data, start_byte, request, status_code, body_bytes, headers_read,
                  fetched, result, attempts, sleeps, last_io, recv, status_line>>

\* The text of the last --hash= argument of a command line, empty if none.
RECURSIVE SuppliedHash(_)
SuppliedHash(args) ==
    IF args = <<>> THEN <<>>
    ELSE LET last == args[Len(args)]
         IN  IF last # <<>> /\ Head(last) = "--hash="
             THEN Tail(last)
             ELSE SuppliedHash(SubSeq(args, 1, Len(args) - 1))

\* main: parse_args; on Err report it and exit(1).
ParseArgs ==
    /\ pc = "args"
    /\ \E args \in ArgVectors :
          LET parsed == parse_args(args)
          IN  /\ args_hash' = SuppliedHash(args)
              /\ IF parsed.ok
                 THEN /\ config' = parsed.config
                      /\ pc' = "top"
                      /\ UNCHANGED process
                 ELSE /\ process' = Exit(1, "Error parsing arguments")
                      /\ pc' = "exit"
                      /\ UNCHANGED config
    /\ UNCHANGED hash_hex
    /\ UNCHANGED DownloadVars

\* main: the match on download_file's result.
MainMatch ==
    /\ pc = "done"
    /\ pc' = "exit"
    /\ IF result.kind = "Ok"
       THEN LET hash_result == Sha256(result.data)
                hash_text   == encode(hash_result)
            IN  /\ hash_hex' = hash_text
                /\ process' = IF hashes_match(hash_text, config.expected_hash)
                              THEN Exit(0, "Success: Hashes match!")
                              ELSE Exit(1, "Failure: Data corruption detected!")
       ELSE /\ process' = Exit(1, "Failed to download the data")
            /\ UNCHANGED hash_hex
    /\ UNCHANGED <<config, args_hash>>
    /\ UNCHANGED DownloadVars

InitMain ==
    /\ pc = "args"
    /\ data = <<>>
    /\ start_byte = 0
    /\ request = <<>>
    /\ status_code = 0
    /\ body_bytes = <<>>
    /\ headers_read = 0
    /\ fetched = NoFetch
    /\ result = Running
    /\ attempts = <<>>
    /\ sleeps = 0
    /\ last_io = Io("none", "none")
    /\ recv = <<>>
    /\ status_line = <<>>
    /\ config = DefaultConfig
    /\ hash_hex = <<>>
    /\ process = ProcessRunning
    /\ args_hash = <<>>

NextMain ==
    \/ ParseArgs
    \/ Next
    \/ MainMatch

SpecMain == InitMain /\ [][NextMain]_vars

(* ------------------- parse_status_line on its own ---------------------- *)
\* Longest status-code field of a generated line.
MaxCodeLen == 3

\* Every text of at most n lexemes over the set chars.
TextsUpTo(chars, n) == UNION {[1..k -> chars] : k \in 0..n}

\* Second fields: every short text of digits, signs and letters, and the
\* values around the u16 limit.
CodeFields ==
    TextsUpTo({"0", "2", "6", "+", "X"}, MaxCodeLen)
        \cup { <<"6", "5", "5", "3", "5">>, <<"6", "5", "5", "3", "6">>,
               <<"0", "0", "6", "5", "5", "3", "5">>, <<"9", "9", "9", "9", "9", "9">> }

\* Lines to parse: leading whitespace, a version field, a separator, a
\* second field, a reason phrase and a line end, in every combination,
\* together with the lines the stream of fetch_range_via_stream delivers.
ParseLines ==
    StatusLines \cup
    { lead \o version \o sep \o code \o reason \o trail :
        lead \in {<<>>, <<" ">>, <<"<TAB>">>},
        version \in {<<"HTTP/", "1.1">>, <<"HTTP/">>, <<"http/", "1.1">>, <<>>},
        sep \in {<<" ">>, <<" ", " ">>, <<"<TAB>">>, <<>>},
        code \in CodeFields,
        reason \in {<<>>, <<" ", "OK">>, <<" ", "Partial", " ", "Content">>,
                    <<" ", "4", "0", "4">>},
        trail \in {<<>>, <<"<CR>", "<LF>">>} }

InitParse ==
    /\ pc = "parse"
    /\ status_line \in ParseLines
    /\ data = <<>>
    /\ start_byte = 0
    /\ request = <<>>
    /\ status_code = 0
    /\ body_bytes = <<>>
    /\ headers_read = 0
    /\ fetched = NoFetch
    /\ result = Running
    /\ attempts = <<>>
    /\ sleeps = 0
    /\ last_io = Io("none", "none")
    /\ recv = <<>>
    /\ config = RunConfig
    /\ hash_hex = <<>>
    /\ process = ProcessRunning
    /\ args_hash = RunConfig.expected_hash

\* parse_status_line(&status_line), its Result kept in status_code and fetched.
ParseStatusLine ==
    /\ pc = "parse"
    /\ LET parsed == parse_status_line(status_line)
       IN  /\ status_code' = parsed.code
           /\ fetched' = IF parsed.ok THEN FetchOk(parsed.code, <<>>)
                                      ELSE FetchErr(parsed.err)
    /\ pc' = "parsed"
    /\ UNCHANGED <<data, start_byte, request, body_bytes, headers_read, result,
                   attempts, sleeps, last_io, recv, status_line>>
    /\ UNCHANGED MainVars

NextParse == ParseStatusLine

SpecParse == InitParse /\ [][NextParse]_vars

(* =============================== claims =============================== *)
IsPrefix(a, b) == Len(a) <= Len(b) /\ SubSeq(b, 1, Len(a)) = a

\* The number a run of decimal digits denotes.
RECURSIVE DecimalValue(_)
DecimalValue(ds) ==
    IF ds = <<>> THEN 0
    ELSE 10 * DecimalValue(SubSeq(ds, 1, Len(ds) - 1)) + DigitValue(ds[Len(ds)])

\* The offset a server reads in the "Range: bytes=<offset>-" header of req.
RangeOffset(req) ==
    LET i == Min({k \in 1..Len(req) : req[k] = "bytes="})
        j == Min({k \in (i + 1)..Len(req) : req[k] = "-"})
    IN  DecimalValue(SubSeq(req, i + 1, j - 1))

InFetch == pc \in {"resolve", "connect", "timeouts", "write", "status", "headers",
                   "body", "match"}
LastAttempt == attempts[Len(attempts)]

\* During a request the offset passed, recorded and written is Len(data).
C1_StartIsLength ==
    /\ InFetch => /\ start_byte = Len(data)
                  /\ LastAttempt.offset = Len(data)
    /\ (InFetch /\ request # <<>>) => RangeOffset(request) = Len(data)

\* C1: while a range request is in progress, the start offset passed to
\* fetch_range, and the offset in the Range header once the request is written,
\* equal the length of the accumulated payload; and every step leaves the old
\* payload as a prefix of the new one (append only).
C1_OffsetAndAppendOnly ==
    [](C1_StartIsLength) /\ [][IsPrefix(data, data')]_vars
\* A third request on the wire, issued after two bytes were accumulated.
C1_Witness ==
    /\ pc = "status"
    /\ Len(attempts) = 3
    /\ Len(data) = 2
    /\ request # <<>>

\* C2: download_file returns success exactly when the attempt just completed
\* returned 206 with an empty body for a request at an offset > 0, and it then
\* returns the accumulated payload; every other 200/206 response leaves it
\* running at the loop top.
C2_SuccessIffEmpty206 ==
    /\ (~InFetch /\ fetched.tag = "ok" /\ fetched.status \in {200, 206}) =>
           IF fetched.status = 206 /\ Len(fetched.chunk) = 0 /\ LastAttempt.offset > 0
           THEN pc = "done" /\ result.kind = "Ok" /\ result.data = data
           ELSE pc = "top" /\ result.kind = "running"
    /\ result.kind = "Ok" =>
           /\ fetched.tag = "ok"
           /\ fetched.status = 206
           /\ Len(fetched.chunk) = 0
           /\ LastAttempt.offset > 0
\* Two chunks were appended and an empty 206 at offset 2 ended the download.
C2_Witness ==
    /\ pc = "done"
    /\ result.kind = "Ok"
    /\ Len(result.data) = 2
    /\ Len(attempts) = 3
    /\ attempts[1].outcome = "appended"
    /\ attempts[2].outcome = "appended"

\* The status code at the end of the "non-successful status" message.
CarriedStatus(msg) ==
    LET i == Max({k \in 1..Len(msg) : msg[k] = " "})
    IN  DecimalValue(SubSeq(msg, i + 1, Len(msg)))

\* C3: a response with a status other than 200 and 206 ends download_file at
\* once with an error carrying that status: its body is not appended, no
\* backoff sleep follows, and no further request is issued (a 404 on the first
\* request: one request, no retry).
C3_BadStatusIsFatal ==
    (~InFetch /\ fetched.tag = "ok" /\ fetched.status \notin {200, 206}) =>
        /\ pc = "done"
        /\ result.kind = "Err"
        /\ CarriedStatus(result.msg) = fetched.status
        /\ Len(data) = LastAttempt.offset
        /\ (Len(attempts) = 1 => sleeps = 0 /\ data = <<>>)
\* A 404 with a body on the first request.
C3_Witness ==
    /\ pc = "done"
    /\ fetched.tag = "ok"
    /\ fetched.status = 404
    /\ Len(fetched.chunk) = 2
    /\ Len(attempts) = 1

\* The request after a retried attempt carries the offset of that attempt.
C4_SameOffsetAfterRetry ==
    (Len(attempts) >= 2 /\ attempts[Len(attempts) - 1].outcome = "retry") =>
        /\ LastAttempt.offset = attempts[Len(attempts) - 1].offset
        /\ (InFetch /\ request # <<>>) =>
               RangeOffset(request) = attempts[Len(attempts) - 1].offset

\* The steps of a retry: match to sleep, sleep to loop top, loop top to the
\* next call, none of them changing the payload or the offset.
C4_RetryStep ==
    /\ (pc = "match" /\ fetched.tag = "err" /\ is_retryable(fetched.err)) =>
           (pc' = "sleep" /\ data' = data)
    /\ pc = "sleep" => (pc' = "top" /\ data' = data /\ sleeps' = sleeps + 1)
    /\ (pc = "top" /\ fetched.tag = "err") =>
           (pc' = "resolve" /\ data' = data /\ start_byte' = start_byte)

\* C4: after an attempt that failed with an error download_file classifies
\* retryable, the payload is unchanged, the backoff sleep is passed through,
\* and the next request starts at the offset of the failed one.
C4_RetryKeepsPayloadAndOffset ==
    [](C4_SameOffsetAfterRetry) /\ [][C4_RetryStep]_vars
\* The request at offset 1 failed with a retryable error and, after one sleep,
\* the next request is on the wire.
C4_Witness ==
    /\ Len(attempts) = 3
    /\ attempts[2].outcome = "retry"
    /\ attempts[2].offset = 1
    /\ sleeps = 1
    /\ pc = "status"

\* What section 4.3 calls retryable: the six connection-level kinds, the two
\* closed-early conditions and an address-resolution failure.
SpecRetryable(e) ==
    \/ e.io \in {"ConnectionRefused", "TimedOut", "ConnectionReset",
                 "ConnectionAborted", "NotConnected", "BrokenPipe"}
    \/ e.cause \in {"closed_before_status", "closed_during_headers",
                    "resolve_lookup", "resolve_empty"}

\* C5: once download_file has handled a transport error, it is in the backoff
\* sleep exactly when the error is a connection-level kind, a closed-early
\* condition or an address-resolution failure, and it has failed otherwise.
C5_RetryableExactlyAsListed ==
    (fetched.tag = "err" /\ pc \in {"sleep", "done"}) =>
        IF SpecRetryable(fetched.err)
        THEN pc = "sleep"
        ELSE pc = "done" /\ result.kind = "Err"

\* C6: a malformed status line or an invalid status code is never retried.
C6_BadStatusLineNeverRetried ==
    (fetched.tag = "err"
        /\ fetched.err.cause \in {"empty_status", "malformed_status",
                                  "invalid_status_code"}) =>
        pc \in {"match", "done"}

\* C7: an address-resolution failure (a lookup error or no candidate address)
\* never ends download_file.
C7_ResolutionFailureRetried ==
    (fetched.tag = "err" /\ fetched.err.cause \in {"resolve_lookup", "resolve_empty"}) =>
        pc \in {"match", "sleep", "top"}

\* C8: download_file fails only on a response status outside {200, 206} or on
\* an error it classifies as not retryable; however many attempts have ended
\* in a retry, it is still running.
C8_NoRetryCeiling ==
    /\ result.kind = "Err" =>
           \/ fetched.tag = "ok" /\ fetched.status \notin {200, 206}
           \/ fetched.tag = "err" /\ ~is_retryable(fetched.err)
    /\ (\A i \in 1..Len(attempts) : attempts[i].outcome \in {"retry", "pending"}) =>
           result.kind = "running"
\* Every attempt the bound allows has ended in a retry, and the loop is at
\* its top again.
C8_Witness ==
    /\ pc = "top"
    /\ sleeps = MaxAttempts
    /\ \A i \in 1..Len(attempts) : attempts[i].outcome = "retry"

\* The transient conditions of section 7: the connection-level kinds and the
\* transient read conditions.
TransientKinds ==
    {"ConnectionRefused", "TimedOut", "ConnectionReset", "ConnectionAborted",
     "NotConnected", "BrokenPipe", "WouldBlock", "UnexpectedEof"}

\* C9: a transient condition, in whichever phase it occurs, never makes
\* download_file return a failure.
C9_TransientNeverFatal ==
    (last_io.ev \in TransientKinds
        /\ last_io.stage \in {"connect", "write", "status", "headers", "body"}) =>
        result.kind # "Err"

\* C10: a timeout, would-block or unexpected-end-of-data on a body read makes
\* fetch_range_via_stream return Ok with the status code parsed and exactly the
\* body bytes the stream delivered before it.
C10_TransientBodyReadIsPartialOk ==
    (last_io.stage = "body" /\ last_io.ev \in {"TimedOut", "WouldBlock", "UnexpectedEof"}) =>
        /\ fetched.tag = "ok"
        /\ fetched.status = status_code
        /\ fetched.chunk = recv
\* Two different body bytes were delivered, then the read hit an unexpected
\* end of data.
C10_Witness ==
    /\ last_io = Io("body", "UnexpectedEof")
    /\ Len(recv) = 2
    /\ recv[1] # recv[2]
    /\ fetched.tag = "ok"

\* C11: a zero-byte read before any status line fails with "Connection closed
\* before status line received"; a zero-byte read inside the header block
\* fails with "Connection closed during header reading"; the two errors differ
\* and neither carries a status code or a body.
C11_ClosedEarlyErrors ==
    /\ last_io = Io("status", "eof") =>
           /\ fetched.tag = "err"
           /\ fetched.err.io = "None"
           /\ fetched.err.msg = <<"Connection", " ", "closed", " ", "before", " ",
                                  "status", " ", "line", " ", "received">>
           /\ fetched.status = 0 /\ fetched.chunk = <<>>
    /\ last_io = Io("headers", "eof") =>
           /\ fetched.tag = "err"
           /\ fetched.err.io = "None"
           /\ fetched.err.msg = <<"Connection", " ", "closed", " ", "during", " ",
                                  "header", " ", "reading">>
           /\ fetched.status = 0 /\ fetched.chunk = <<>>
\* The stream closed inside the header block, after a header line was read.
C11_Witness ==
    /\ last_io = Io("headers", "eof")
    /\ headers_read = 1
    /\ status_code = 206
    /\ pc = "match"

\* The bodies returned by the first k attempts, concatenated.
RECURSIVE Bodies(_)
Bodies(k) == IF k = 0 THEN <<>> ELSE Bodies(k - 1) \o attempts[k].body

\* Attempt i returned Ok with status 206.
Answered206(i) ==
    attempts[i].outcome \in {"appended", "complete"} /\ attempts[i].status = 206

\* C12: when every request so far was answered 206 with a non-empty body, the
\* requests were issued at offsets 0, len(b1), len(b1)+len(b2), ... and the
\* download is still running with payload b1..bk; when the next request is
\* answered 206 with an empty body, download_file has stopped with success,
\* after exactly that request, returning b1..bn.
C12_ChunksThenEmpty206 ==
    \A k \in 1..Len(attempts) :
        (\A i \in 1..(k - 1) : Answered206(i) /\ attempts[i].body # <<>>) =>
            /\ attempts[k].offset = Len(Bodies(k - 1))
            /\ (Answered206(k) /\ attempts[k].body # <<>> /\ k = Len(attempts)) =>
                   /\ pc = "top"
                   /\ result.kind = "running"
                   /\ data = Bodies(k)
            /\ (Answered206(k) /\ attempts[k].body = <<>> /\ k >= 2) =>
                   /\ pc = "done"
                   /\ k = Len(attempts)
                   /\ result.kind = "Ok"
                   /\ result.data = Bodies(k - 1)
\* Two chunks of one byte each, then an empty 206 at offset 2.
C12_Witness ==
    /\ Len(attempts) = 3
    /\ Answered206(1) /\ Len(attempts[1].body) = 1
    /\ Answered206(2) /\ Len(attempts[2].body) = 1
    /\ Answered206(3) /\ attempts[3].body = <<>>
    /\ attempts[3].offset = 2
    /\ pc = "done"

\* C13: the process ends with status 0 exactly when the download returned a
\* payload and the lowercase hex text of its digest is, character for
\* character, the expected digest; the digest is taken only after a
\* successful download, and a mismatch ends the process with a nonzero
\* status and the data-corruption report.
LowerHex == {HEX_DIGITS[i] : i \in 1..16}

C13_ExitZeroIffDigestMatches ==
    /\ hash_hex # <<>> =>
           /\ result.kind = "Ok" /\ process.exited
           /\ hash_hex = encode(Sha256(result.data))
           /\ \A i \in 1..Len(hash_hex) : hash_hex[i] \in LowerHex
    /\ process.exited =>
           /\ process.code = 0 <=>
                  /\ result.kind = "Ok"
                  /\ Len(config.expected_hash) = Len(hash_hex)
                  /\ \A i \in 1..Len(hash_hex) : config.expected_hash[i] = hash_hex[i]
           /\ (result.kind = "Ok" /\ config.expected_hash # hash_hex) =>
                  /\ process.code = 1
                  /\ process.report = "Failure: Data corruption detected!"
    /\ ~process.exited => process.code = 0 /\ pc # "exit"

\* Reached: the payload whose digest text is "ed8f" was downloaded while the
\* command line gave "ED8F", and the process ended with status 1.
C13_Witness ==
    /\ process.exited /\ process.code = 1
    /\ result.kind = "Ok" /\ result.data = <<7, 9>>
    /\ hash_hex = <<"e", "d", "8", "f">>
    /\ config.expected_hash = <<"E", "D", "8", "F">>

\* C14: a command line that supplies no expected digest ends the process
\* with a nonzero status before any network action.
C14_NoDigestExitsBeforeNetwork ==
    (pc # "args" /\ args_hash = <<>>) =>
        /\ pc = "exit" /\ process.exited /\ process.code # 0
        /\ attempts = <<>> /\ last_io = Io("none", "none") /\ request = <<>>
        /\ result = Running

\* Reached: the command line was read, it gave no digest, and the process
\* has ended.
C14_Witness ==
    /\ pc = "exit" /\ args_hash = <<>>
    /\ process = Exit(1, "Error parsing arguments")
    /\ config = DefaultConfig

\* The line without the whitespace at its two ends.
RECURSIVE Stripped(_)
Stripped(line) ==
    IF line = <<>> THEN <<>>
    ELSE IF Head(line) \in WhiteSpace THEN Stripped(Tail(line))
    ELSE IF line[Len(line)] \in WhiteSpace THEN Stripped(SubSeq(line, 1, Len(line) - 1))
    ELSE line

\* The text before the first space of s, and the text after it.
RECURSIVE FieldOf(_)
FieldOf(s) ==
    IF s = <<>> \/ Head(s) = " " THEN <<>> ELSE <<Head(s)>> \o FieldOf(Tail(s))

AfterField(s) == SubSeq(s, Len(FieldOf(s)) + 2, Len(s))

FirstField(line) == FieldOf(Stripped(line))
SecondField(line) == FieldOf(AfterField(Stripped(line)))
HasTwoFields(line) == Len(FieldOf(Stripped(line))) < Len(Stripped(line))

\* An unsigned integer in 0..65535: one or more decimal digits whose value
\* is at most 65535.
IsUnsignedU16(field) ==
    /\ field # <<>>
    /\ \A i \in 1..Len(field) : IsDigit(field[i])
    /\ DecimalValue(field) <= 65535

\* C15: parse_status_line returns the numeric code exactly when the trimmed
\* line has at least two space-separated fields, the first begins with
\* "HTTP/" and the second is an unsigned integer in 0..65535; every other
\* line is rejected with an error, and the reason phrase has no effect.
C15_ParseStatusLineAcceptsExactly ==
    pc = "parsed" =>
        LET accepted ==
                /\ HasTwoFields(status_line)
                /\ FirstField(status_line) # <<>>
                /\ Head(FirstField(status_line)) = "HTTP/"
                /\ IsUnsignedU16(SecondField(status_line))
        IN  /\ fetched.tag = "ok" <=> accepted
            /\ fetched.tag = "ok" => fetched.status = DecimalValue(SecondField(status_line))
            /\ fetched.tag # "ok" => fetched.tag = "err" /\ fetched.err.msg # <<>>

\* The ErrorKinds of a read that the socket's read timeout ends.
BodyTimeoutKinds == {"TimedOut", "WouldBlock"}

\* C16: after an attempt with status 200 or 206 whose body drain a timeout
\* ended, whatever the number of bytes received before it (zero included)
\* and whatever the start offset, download_file is still running and its
\* next request starts at the start offset plus the bytes received.
C16_BodyTimeoutNeverEndsDownload ==
    ( /\ pc \in {"top", "done"}
      /\ last_io.stage = "body" /\ last_io.ev \in BodyTimeoutKinds
      /\ fetched.tag = "ok" /\ fetched.status \in {200, 206} ) =>
        /\ pc = "top" /\ result = Running
        /\ Len(data) = start_byte + Len(recv)

\* The ErrorKinds the claim names as ending the body without an error.
BodyEndKinds == {"TimedOut", "WouldBlock", "UnexpectedEof"}

\* C17 as stated: in the body loop every I/O error other than a timeout, a
\* would-block or an unexpected end of data ends the attempt with that error
\* and without the body bytes already read.
C17_OtherBodyErrorsAbort ==
    (last_io.stage = "body" /\ last_io.ev \in BodyErrKinds \ BodyEndKinds) =>
        /\ pc \in {"match", "sleep", "top", "done"}
        /\ fetched.tag = "err" /\ fetched.err.io = last_io.ev
        /\ fetched.chunk = <<>> /\ Len(data) = start_byte

\* C17, amended: in the body loop every I/O error other than a timeout, a
\* would-block, an unexpected end of data or an interrupted read ends the
\* attempt with that error and without the body bytes already read; an
\* interrupted read is repeated and the attempt goes on.
C17_OtherBodyErrorsAbortExceptInterrupted ==
    /\ (last_io.stage = "body"
            /\ last_io.ev \in BodyErrKinds \ (BodyEndKinds \cup {"Interrupted"})) =>
           /\ pc \in {"match", "sleep", "top", "done"}
           /\ fetched.tag = "err" /\ fetched.err.io = last_io.ev
           /\ fetched.chunk = <<>> /\ Len(data) = start_byte
    /\ last_io = Io("body", "Interrupted") =>
           /\ pc = "body" /\ fetched = NoFetch /\ body_bytes = recv

\* Reached: the connection was reset after two body bytes had been read, and
\* the attempt returned the error.
C17_Witness ==
    /\ last_io = Io("body", "ConnectionReset") /\ Len(recv) = 2
    /\ pc = "match" /\ fetched.tag = "err" /\ fetched.err.io = "ConnectionReset"

\* C18: the header lines of a response have no effect on the outcome of the
\* fetch: a header line the stream delivers never ends the attempt, and the
\* Ok the attempt returns carries the status of the status line and exactly
\* the bytes that follow the blank line.
C18_HeaderContentsHaveNoEffect ==
    /\ last_io = Io("headers", "line") => pc \in {"headers", "body"} /\ fetched = NoFetch
    /\ (pc = "match" /\ last_io.stage = "body" /\ fetched.tag = "ok") =>
           fetched.status = status_code /\ fetched.chunk = recv

\* The resources a server can hold: every byte sequence that fits the
\* payload bound.
Resources == UNION {[1..n -> Bytes] : n \in 0..MaxData}

\* resource[k..], empty when k is at or past the end.
Rest(resource, k) == SubSeq(resource, k + 1, Len(resource))

\* The attempts download_file matched as Ok with a status of 200 or 206.
AnsweredAttempts ==
    {i \in 1..Len(attempts) : attempts[i].outcome \in {"appended", "complete"}}

\* Every body answered so far is a prefix of what the resource has from the
\* offset requested.
ServesPrefixes(resource) ==
    \A i \in AnsweredAttempts :
        IsPrefix(attempts[i].body, Rest(resource, attempts[i].offset))

\* C19: for every resource of which each 200/206 body has been a prefix of
\* resource[k..] at the offset k requested, the accumulated payload is a
\* prefix of the resource, and so is the payload a finished download returns.
C19_PayloadIsPrefixOfResource ==
    \A resource \in Resources :
        ServesPrefixes(resource) =>
            /\ IsPrefix(data, resource)
            /\ result.kind = "Ok" => IsPrefix(result.data, resource)

\* Reached: one byte answered at offset 0, an attempt that read a byte and
\* then failed and was retried, and the second byte answered at offset 1.
C19_Witness ==
    /\ Len(attempts) = 3 /\ data = <<7, 9>>
    /\ attempts[1].outcome = "appended" /\ attempts[1].body = <<7>>
    /\ attempts[2].outcome = "retry" /\ attempts[2].offset = 1
    /\ attempts[3].outcome = "appended" /\ attempts[3].body = <<9>>
    /\ attempts[3].offset = 1

\* C20: against a server that answers every request at offset k with 206 and
\* bytes of resource[k..], any attempt possibly cut short, a download that
\* returns Ok returns the complete resource.
C20_SuccessOnlyWithCompleteResource ==
    \A resource \in Resources :
        ( /\ ServesPrefixes(resource)
          /\ \A i \in AnsweredAttempts : attempts[i].status = 206
          /\ result.kind = "Ok" ) =>
            result.data = resource

(* ------------------ download_file against a fair server ----------------- *)
\* The resource the server holds.
Resource == <<7, 9>>

\* The attempts that may fail or be cut short in one run; the others are
\* answered in full, and the loop needs two of those to finish.
MaxFaults == MaxAttempts - 2

\* The current attempt has returned and did not bring all of resource[k..].
CurrentFaulty ==
    /\ attempts # <<>> /\ attempts[Len(attempts)].outcome = "pending"
    /\ \/ fetched.tag = "err"
       \/ fetched.tag = "ok" /\ fetched.chunk # Rest(Resource, start_byte)

\* The earlier attempts that failed or did not bring all of resource[k..].
PastFaults ==
    {i \in 1..Len(attempts) :
        \/ attempts[i].outcome \in {"retry", "fatal", "bad_status"}
        \/ /\ attempts[i].outcome \in {"appended", "complete"}
           /\ attempts[i].body # Rest(Resource, attempts[i].offset)}

FaultCount == Cardinality(PastFaults) + (IF CurrentFaulty THEN 1 ELSE 0)

\* What the server and the network do in a step: every answer is 206 with
\* bytes of resource[k..]; an attempt fails only with a connection-level,
\* closed-early, address-resolution or transient read error; and at most
\* MaxFaults attempts fail or are cut short.
ServerStep ==
    /\ status_code' \in {0, 206}
    /\ IsPrefix(recv', Rest(Resource, start_byte'))
    /\ fetched'.tag = "err" =>
           SpecRetryable(fetched'.err) \/ fetched'.err.io \in TransientKinds
    /\ FaultCount' <= MaxFaults

NextLive ==
    \/ LoopTop /\ ServerStep
    \/ Resolve /\ ServerStep
    \/ Connect /\ ServerStep
    \/ SetTimeouts /\ ServerStep
    \/ WriteRequest /\ ServerStep
    \/ ReadStatusLine /\ ServerStep
    \/ ReadHeaderLine /\ ServerStep
    \/ ReadBody /\ ServerStep
    \/ MatchOk /\ ServerStep
    \/ MatchErr /\ ServerStep
    \/ Sleep /\ ServerStep

\* download_file is sequential code that always takes its next step, and
\* every read ends (data, end of stream, error or timeout).
SpecLive == Init /\ [][NextLive]_vars /\ WF_vars(NextLive)

\* C21: for a non-empty resource, when only finitely many attempts fail or
\* are cut short and every other attempt at offset k is answered with 206
\* and resource[k..], download_file eventually returns Ok.
C21_EventuallySuccess == <>(pc = "done" /\ result.kind = "Ok")
====
